---- MODULE Spec2Model ----
(***************************************************************************)
(* A model of sms_marketing.py: the TelephonesStorage class (registry,     *)
(* state file, backup file, watcher thread) and the SMSMarketing manager   *)
(* with its campaign runner.                                               *)
(*                                                                         *)
(* A registry (a Python dict of phone number -> bool) is a sequence of     *)
(* entries [num, st] with distinct numbers: the order of the sequence is   *)
(* the dict's insertion order.  A file is a record [k, d]: k says whether  *)
(* the file is missing, malformed, empty (opened for writing, nothing      *)
(* flushed yet) or holds a JSON object, d is the object's entries in the   *)
(* order of the text.                                                      *)
(***************************************************************************)
EXTENDS Integers, Sequences, FiniteSets, TLC

\* Bounds of the model.
NumNumbers == 2
MaxProcesses == 2
MaxWatchers == 2

Numbers == 1..NumNumbers
Paths == {"p1", "p2"}
WatcherIds == 1..MaxWatchers
None == "None"

VARIABLES
    fs,             \* primary files: path -> file
    bak,            \* backup files:  path -> file  (path + '.bak')
    telephones,     \* TelephonesStorage.telephones
    path_to_json,   \* TelephonesStorage.path_to_json
    thread,         \* TelephonesStorage.thread: 0 (no attribute) or a watcher id
    watchers,       \* the threads running _watch_thread: id -> its frame
    mobile_number,  \* SMSMarketing.mobile_number
    campaign,       \* SMSMarketing.campaign
    pc,             \* where the main thread is
    loc,            \* the main thread's locals outside run_campaign
    numbers_to_send,\* run_campaign's local: the pending numbers, in order
    n,              \* run_campaign's loop index (messages attempted so far)
    t2,             \* a second thread that calls watch_telephones_state
    proc,           \* which process execution this is (1..MaxProcesses)
    raised,         \* the main thread's last call ended with an exception
    attempts,       \* log of the current run's calls of _send_sms
    startReg,       \* the registry as it stood when the current run started
    sentNow,        \* <<path, number>> sent successfully by this process
    sentPrev,       \* <<path, number>> sent successfully by earlier processes
    hist,           \* every value the in-memory registry had in this process
                    \* (recorded when Init starts it non-empty, else {})
    orig,           \* the files as they were before the program first ran
    call            \* the main thread's last call and its arguments
                    \* (recorded when Init starts it as NoCall)

vars == <<fs, bak, telephones, path_to_json, thread, watchers, mobile_number,
          campaign, pc, loc, numbers_to_send, n, t2, proc, raised, attempts,
          startReg, sentNow, sentPrev, hist, orig, call>>

storeVars == <<fs, bak, telephones, path_to_json, thread, watchers>>
mainVars  == <<mobile_number, campaign, pc, loc, numbers_to_send, n, raised,
               attempts, startReg, call>>

----------------------------------------------------------------------------
\* Dicts.

Entry(num, st) == [num |-> num, st |-> st]
Items(reg) == {reg[i] : i \in DOMAIN reg}
Keys(reg) == {reg[i].num : i \in DOMAIN reg}

\* dict == dict: the same keys with the same values, whatever the order.
DictEq(a, b) == Items(a) = Items(b)

\* reg[num]
Get(reg, num) == (CHOOSE e \in Items(reg) : e.num = num).st

\* reg[num] = True: an existing key keeps its place, a new key goes last.
SetItemTrueRebuilds(reg, num) == <<Entry(num, TRUE)>>

SetItemTrue(reg, num) ==
    IF num \in Keys(reg)
    THEN [i \in DOMAIN reg |->
             IF reg[i].num = num THEN Entry(num, TRUE) ELSE reg[i]]
    ELSE Append(reg, Entry(num, TRUE))

\* {mobile_number: state for ... in telephones.items() if state is False},
\* as the sequence of its keys.
Pending(reg) ==
    LET f[i \in 0..Len(reg)] ==
            IF i = 0 THEN <<>>
            ELSE IF reg[i].st = FALSE THEN Append(f[i - 1], reg[i].num)
                 ELSE f[i - 1]
    IN f[Len(reg)]

----------------------------------------------------------------------------
\* Files.

NoFile    == [k |-> "missing",   d |-> <<>>]
Malformed == [k |-> "malformed", d |-> <<>>]
EmptyFile == [k |-> "empty",     d |-> <<>>]

\* json.dump(reg, f, indent=4), once flushed: the entries in dict order.
JsonText(reg) == [k |-> "json", d |-> reg]

\* json.loads(text) succeeds on a JSON object only.
Parses(file) == file.k = "json"
JsonLoads(file) == file.d

\* The registries a state file may hold at first: the numbers in descending
\* order (so that insertion order is not numeric order), any states.
InitialRegistries ==
    {[i \in 1..NumNumbers |-> Entry(NumNumbers + 1 - i, v[i])] :
        v \in [1..NumNumbers -> BOOLEAN]}

\* A registry of one pending number.
OneNumber(num) == <<Entry(num, FALSE)>>

\* The registry of a campaign that is over: every number sent to.
AllSent == [i \in 1..NumNumbers |-> Entry(NumNumbers + 1 - i, TRUE)]

----------------------------------------------------------------------------
\* Frames.

NoLoc == [path |-> None, rd |-> NoFile, ctx |-> None]

NoWatcher == [pc |-> "none", previous_state |-> <<>>, obj |-> <<>>,
              live |-> FALSE, tmp |-> <<>>, fpath |-> None,
              last |-> NoFile]

Alive(w) == watchers[w].pc \notin {"none", "dead"}
AliveWatchers == {w \in WatcherIds : Alive(w)}

\* The dict a watcher is iterating over: the registry itself while it is
\* still TelephonesStorage.telephones, its last value once a load replaced it.
Src(w) == IF watchers[w].live THEN telephones ELSE watchers[w].obj

\* The history of the registry's values, where it is recorded.
Recorded(h, reg) == IF h = {} THEN h ELSE h \cup {reg}

\* The main thread's last call, where it is recorded.
\* `turn' tells one call from the next call of the same name.
NoCall == [name |-> None, args |-> <<>>, turn |-> FALSE]
Unrecorded == [name |-> "unrecorded", args |-> <<>>, turn |-> FALSE]
Called(name, args) ==
    IF call = Unrecorded THEN call
    ELSE [name |-> name, args |-> args, turn |-> ~call.turn]

\* A load rebinds TelephonesStorage.telephones: the iterations under way keep
\* the old dict, which nothing mutates any more.
Detach(ws) ==
    [w \in WatcherIds |->
        IF ws[w].live THEN [ws[w] EXCEPT !.live = FALSE, !.obj = telephones]
        ELSE ws[w]]

InitMemory(recording) ==
    /\ orig = fs
    /\ bak = [p \in Paths |-> NoFile]
    /\ telephones = <<>>
    /\ path_to_json = None
    /\ thread = 0
    /\ watchers = [w \in WatcherIds |-> NoWatcher]
    /\ mobile_number = None
    /\ campaign = None
    /\ pc = "idle"
    /\ loc = NoLoc
    /\ numbers_to_send = <<>>
    /\ n = 0
    /\ t2 = "idle"
    /\ proc = 1
    /\ raised = FALSE
    /\ attempts = <<>>
    /\ startReg = <<>>
    /\ sentNow = {}
    /\ sentPrev = {}
    /\ hist = IF "hist" \in recording THEN {<<>>} ELSE {}
    /\ call = IF "call" \in recording THEN NoCall ELSE Unrecorded

\* The state file p1 holds one of `regs'; the file p2 is one of `others'.
InitFiles(regs, others, recording) ==
    /\ fs \in [Paths -> {JsonText(r) : r \in regs} \cup others]
    /\ fs["p1"] \in {JsonText(r) : r \in regs}
    /\ fs["p2"] \in others
    /\ InitMemory(recording)

----------------------------------------------------------------------------
\* The main thread.  A call that raises returns to the caller with `raised'
\* set; the caller may go on calling.

\* A new call begins: what the last call left behind is forgotten.
Begin ==
    /\ attempts' = <<>>
    /\ startReg' = <<>>
    /\ numbers_to_send' = <<>>
    /\ n' = 0

\* set_telephones, line 28: the path is stored before the file is opened.
SetTelephones(p) ==
    /\ pc = "idle"
    /\ path_to_json' = p
    /\ loc' = [NoLoc EXCEPT !.path = p]
    /\ pc' = "load_open"
    /\ raised' = FALSE
    /\ call' = Called("set_telephones", <<p>>)
    /\ Begin
    /\ UNCHANGED <<fs, bak, telephones, thread, watchers, mobile_number,
                   campaign, t2, proc, sentNow, sentPrev, hist, orig>>

\* line 30 and f.read(): a missing file raises FileNotFoundError.
SetTelephonesRead ==
    /\ pc = "load_open"
    /\ IF fs[loc.path].k = "missing"
       THEN /\ raised' = TRUE
            /\ pc' = "idle"
            /\ loc' = NoLoc
       ELSE /\ raised' = raised
            /\ pc' = "load_parse"
            /\ loc' = [loc EXCEPT !.rd = fs[loc.path]]
    /\ UNCHANGED <<storeVars, mobile_number, campaign, numbers_to_send, n, t2,
                   proc, attempts, startReg, sentNow, sentPrev, hist, orig,
                   call>>

\* line 31: json.loads raises on text that is no JSON value; otherwise the
\* class attribute is rebound to the new dict.
SetTelephonesParse ==
    /\ pc = "load_parse"
    /\ IF Parses(loc.rd)
       THEN /\ telephones' = JsonLoads(loc.rd)
            /\ watchers' = Detach(watchers)
            /\ hist' = Recorded(hist, JsonLoads(loc.rd))
            /\ raised' = raised
            /\ pc' = "load_bak"
            /\ loc' = loc
       ELSE /\ raised' = TRUE
            /\ pc' = "idle"
            /\ loc' = NoLoc
            /\ UNCHANGED <<telephones, watchers, hist, orig>>
    /\ UNCHANGED <<fs, bak, path_to_json, thread, mobile_number, campaign,
                   numbers_to_send, n, t2, proc, attempts, startReg, sentNow,
                   sentPrev, orig, call>>

\* lines 33-34: copyfile copies what the primary file holds at that moment.
Backup(p) ==
    IF bak[p].k = "missing" THEN [bak EXCEPT ![p] = fs[p]] ELSE bak

SetTelephonesBackup ==
    /\ pc = "load_bak"
    /\ bak' = Backup(loc.path)
    /\ pc' = "idle"
    /\ loc' = NoLoc
    /\ UNCHANGED <<fs, telephones, path_to_json, thread, watchers,
                   mobile_number, campaign, numbers_to_send, n, t2, proc,
                   raised, attempts, startReg, sentNow, sentPrev, hist, orig,
                   call>>

\* set_mobile_number, lines 199-205.
MobileArgs == {None, "", "+48100200300"}
AlphaArgs == {None, "ACME"}

Truthy(x) == x # None /\ x # ""

SetMobileNumber(mobile, alpha) ==
    /\ pc = "idle"
    /\ Begin
    /\ call' = Called("set_mobile_number", <<mobile, alpha>>)
    /\ IF (mobile = None /\ alpha = None) \/ (mobile # None /\ alpha # None)
       THEN /\ raised' = TRUE
            /\ mobile_number' = mobile_number
       ELSE /\ raised' = FALSE
            /\ mobile_number' = IF Truthy(mobile) THEN mobile ELSE alpha
    /\ UNCHANGED <<storeVars, campaign, pc, loc, t2, proc, sentNow, sentPrev,
                   hist, orig>>

\* watch_telephones_state, line 42: whether a new thread is to be started.
NoWatcherRunning == thread = 0 \/ ~Alive(thread)

\* lines 43-44: a new thread object is bound to cls.thread and started.
FreeIds == {w \in WatcherIds : ~Alive(w)}
NewId == CHOOSE w \in FreeIds : \A v \in FreeIds : w <= v

StartThread(ws) == [ws EXCEPT ![NewId] = [NoWatcher EXCEPT !.pc = "init"]]

\* create_campaign, lines 221-223, up to the test of line 42 made by
\* _Campaign.__init__ (line 127); the campaign is bound (line 223) once
\* watch_telephones_state has returned.
SenderNeverMissing(sender) == FALSE

\* create_campaign, line 220: `if self.mobile_number is None'.
SenderMissing(sender) == sender = None

CreateCampaign ==
    /\ pc = "idle"
    /\ Begin
    /\ call' = Called("create_campaign", <<>>)
    /\ IF SenderMissing(mobile_number)
       THEN /\ raised' = TRUE
            /\ UNCHANGED <<pc, loc, campaign, orig>>
       ELSE /\ raised' = FALSE
            /\ IF NoWatcherRunning
               THEN /\ pc' = "watch_start"
                    /\ loc' = [NoLoc EXCEPT !.ctx = "create"]
                    /\ campaign' = campaign
               ELSE /\ campaign' = "Campaign"
                    /\ UNCHANGED <<pc, loc, orig>>
    /\ UNCHANGED <<storeVars, mobile_number, t2, proc, sentNow, sentPrev,
                   hist, orig>>

\* A direct call of watch_telephones_state: the test of line 42.
WatchTelephonesState ==
    /\ pc = "idle"
    /\ Begin
    /\ call' = Called("watch_telephones_state", <<>>)
    /\ raised' = FALSE
    /\ IF NoWatcherRunning
       THEN /\ pc' = "watch_start"
            /\ loc' = [NoLoc EXCEPT !.ctx = "direct"]
       ELSE UNCHANGED <<pc, loc, orig>>
    /\ UNCHANGED <<storeVars, mobile_number, campaign, t2, proc, sentNow,
                   sentPrev, hist, orig>>

\* lines 43-44 on the main thread, then the return to the caller.
WatchStart ==
    /\ pc = "watch_start"
    /\ FreeIds # {}
    /\ watchers' = StartThread(watchers)
    /\ thread' = NewId
    /\ campaign' = IF loc.ctx = "create" THEN "Campaign" ELSE campaign
    /\ pc' = "idle"
    /\ loc' = NoLoc
    /\ UNCHANGED <<fs, bak, telephones, path_to_json, mobile_number,
                   numbers_to_send, n, t2, proc, raised, attempts, startReg,
                   sentNow, sentPrev, hist, orig, call>>

\* SMSMarketing.run_campaign, line 232, and _Campaign.run_campaign, lines
\* 134-135.  Without a campaign, self.campaign.run_campaign raises.
RunCampaign ==
    /\ pc = "idle"
    /\ call' = Called("run_campaign", <<>>)
    /\ IF campaign = None
       THEN /\ raised' = TRUE
            /\ Begin
            /\ pc' = pc
       ELSE /\ raised' = FALSE
            /\ numbers_to_send' = Pending(telephones)
            /\ n' = 0
            /\ attempts' = <<>>
            /\ startReg' = telephones
            /\ pc' = IF Pending(telephones) = <<>> THEN "idle" ELSE "run"
    /\ UNCHANGED <<storeVars, mobile_number, campaign, loc, t2, proc, sentNow,
                   sentPrev, hist, orig>>

\* What the transport's messages.create may do, as _send_sms tells it apart:
\* return a message with a sid, return a message whose sid is None, raise
\* TwilioRestException.
Outcomes == {"sid", "nosid", "rejected"}

\* The same with a message whose sid is the empty string.
AllOutcomes == Outcomes \cup {"emptysid"}

\* lines 160-161: the test is `sent_sms.sid is None'.
SidIsNone(outcome) == outcome = "nosid"

\* _send_sms, lines 153-170: what it does to the registry.  Line 165 is
\* reached when messages.create returned and line 161 did not raise.
DeliveredAlways(reg, to, outcome) == SetItemTrue(reg, to)

Delivered(reg, to, outcome) ==
    IF outcome # "rejected" /\ ~SidIsNone(outcome)
    THEN SetItemTrue(reg, to) ELSE reg

\* _send_sms, lines 160-161 and 166-168: only TwilioRestException is caught,
\* the Exception of line 161 leaves _send_sms and run_campaign.
Propagates(outcome) == SidIsNone(outcome)

\* The value _send_sms returns when it returns: sent_sms.sid (line 170), or
\* None from the handler (line 168).
Returned(outcome) ==
    CASE outcome = "sid" -> "SID"
      [] outcome = "emptysid" -> ""
      [] OTHER -> None

NofNShrinks(k, numbers) == <<k + 1, Len(numbers) - k>>

\* line 139: sms.nofN = (n + 1, length_of_numbers), length_of_numbers being
\* len(numbers_to_send) taken once, at line 135.
NofN(k, numbers) == <<k + 1, Len(numbers)>>

\* One turn of the loop of lines 137-140 with the call of _send_sms.
SendSms(outcome) ==
    /\ pc = "run"
    /\ LET to == numbers_to_send[n + 1]
           nofN == NofN(n, numbers_to_send)
       IN /\ attempts' = Append(attempts,
                 [to |-> to, nofN |-> nofN, outcome |-> outcome,
                  ret |-> IF Propagates(outcome) THEN "raise"
                          ELSE Returned(outcome)])
          /\ telephones' = Delivered(telephones, to, outcome)
          /\ hist' = Recorded(hist, Delivered(telephones, to, outcome))
          /\ sentNow' = IF outcome = "sid"
                        THEN sentNow \cup {<<path_to_json, to>>}
                        ELSE sentNow
    /\ n' = n + 1
    /\ raised' = Propagates(outcome)
    /\ pc' = IF Propagates(outcome) \/ n + 1 = Len(numbers_to_send)
             THEN "idle" ELSE "run"
    /\ UNCHANGED <<fs, bak, path_to_json, thread, watchers, mobile_number,
                   campaign, loc, numbers_to_send, t2, proc, startReg,
                   sentPrev, orig, call>>

----------------------------------------------------------------------------
\* The watcher threads (_watch_thread).  A frame's pc:
\*   init      started, line 55 not yet run
\*   init_copy inside the deepcopy of line 55
\*   poll      at the test of line 58 (after the sleep of line 62)
\*   copy      the test of line 58 found a difference, line 59 not yet run
\*   copying   inside the deepcopy of line 59
\*   save      before the open of line 73
\*   dump      the file is open and truncated, json.dump not yet begun
\*   dumping   inside json.dump (line 74)
\*   dead      the thread ended with an exception

\* One step of an iteration over a dict (deepcopy's and json.dump's loop over
\* the items): the next entry is read as it is at that moment.  The first
\* step takes the dict that TelephonesStorage.telephones names then.
ReadNext(tmp, src) ==
    IF Len(tmp) < Len(src) THEN Append(tmp, src[Len(tmp) + 1]) ELSE tmp

Iterate(f, starting, src, iterPc) ==
    [f EXCEPT !.pc = iterPc,
              !.tmp = ReadNext(IF starting THEN <<>> ELSE f.tmp, src),
              !.live = IF starting THEN TRUE ELSE f.live]

Finished(f) == [f EXCEPT !.tmp = <<>>, !.live = FALSE, !.obj = <<>>]

\* deepcopy(cls.telephones) of lines 55 and 59, entry by entry; the copy is
\* bound to previous_state when it is complete.
WatchCopy(w) ==
    /\ watchers[w].pc \in {"init", "init_copy", "copy", "copying"}
    /\ LET f == watchers[w]
           starting == f.pc \in {"init", "copy"}
           first == f.pc \in {"init", "init_copy"}
           src == IF starting THEN telephones ELSE Src(w)
           g == Iterate(f, starting, src, IF first THEN "init_copy" ELSE "copying")
       IN watchers' = [watchers EXCEPT ![w] =
              IF Len(g.tmp) = Len(src)
              THEN [Finished(g) EXCEPT !.previous_state = g.tmp,
                                       !.pc = IF first THEN "poll" ELSE "save"]
              ELSE g]
    /\ UNCHANGED <<fs, bak, telephones, path_to_json, thread, mainVars, t2,
                   proc, sentNow, sentPrev, hist, orig>>

\* line 58, after the sleep of line 62.
Changed(w) == ~DictEq(watchers[w].previous_state, telephones)

WatchPoll(w) ==
    /\ watchers[w].pc = "poll"
    /\ watchers' = [watchers EXCEPT ![w].pc =
                       IF Changed(w) THEN "copy" ELSE "poll"]
    /\ UNCHANGED <<fs, bak, telephones, path_to_json, thread, mainVars, t2,
                   proc, sentNow, sentPrev, hist, orig>>

\* line 73: open(path, 'w') creates or truncates the file that path_to_json
\* names now; open(None, 'w') raises and ends the thread.
Truncated(files, p) == [files EXCEPT ![p] = EmptyFile]

WatchOpen(w) ==
    /\ watchers[w].pc = "save"
    /\ IF path_to_json = None
       THEN /\ watchers' = [watchers EXCEPT ![w] =
                               [NoWatcher EXCEPT !.pc = "dead"]]
            /\ fs' = fs
       ELSE /\ watchers' = [watchers EXCEPT ![w].pc = "dump",
                                            ![w].fpath = path_to_json]
            /\ fs' = Truncated(fs, path_to_json)
    /\ UNCHANGED <<bak, telephones, path_to_json, thread, mainVars, t2, proc,
                   sentNow, sentPrev, hist, orig>>

\* line 73: open raises OSError; nothing catches it and the thread ends.
WatchOpenFails(w) ==
    /\ watchers[w].pc = "save"
    /\ path_to_json # None
    /\ watchers' = [watchers EXCEPT ![w] = [NoWatcher EXCEPT !.pc = "dead"]]
    /\ UNCHANGED <<fs, bak, telephones, path_to_json, thread, mainVars, t2,
                   proc, sentNow, sentPrev, hist, orig>>

\* line 74: json.dump(cls.telephones, f, indent=4) entry by entry; the text
\* reaches the file when the with block closes it.
WatchDump(w) ==
    /\ watchers[w].pc \in {"dump", "dumping"}
    /\ LET f == watchers[w]
           starting == f.pc = "dump"
           src == IF starting THEN telephones ELSE Src(w)
           g == Iterate(f, starting, src, "dumping")
       IN IF Len(g.tmp) = Len(src)
          THEN /\ fs' = [fs EXCEPT ![f.fpath] = JsonText(g.tmp)]
               /\ watchers' = [watchers EXCEPT ![w] =
                      [Finished(g) EXCEPT !.pc = "poll", !.fpath = None,
                                          !.last = JsonText(g.tmp)]]
          ELSE /\ fs' = fs
               /\ watchers' = [watchers EXCEPT ![w] = g]
    /\ UNCHANGED <<bak, telephones, path_to_json, thread, mainVars, t2, proc,
                   sentNow, sentPrev, hist, orig>>

----------------------------------------------------------------------------
\* A second thread that calls watch_telephones_state.

SecondCallerTest ==
    /\ t2 = "idle"
    /\ t2' = IF NoWatcherRunning THEN "start" ELSE "idle"
    /\ UNCHANGED <<storeVars, mainVars, proc, sentNow, sentPrev, hist, orig>>

SecondCallerStart ==
    /\ t2 = "start"
    /\ FreeIds # {}
    /\ watchers' = StartThread(watchers)
    /\ thread' = NewId
    /\ t2' = "idle"
    /\ UNCHANGED <<fs, bak, telephones, path_to_json, mainVars, proc, sentNow,
                   sentPrev, hist, orig>>

----------------------------------------------------------------------------
\* The process is stopped (the watcher never ends by itself) and the program
\* is started again: the files are all that is left.
Restart ==
    /\ proc < MaxProcesses
    /\ proc' = proc + 1
    /\ telephones' = <<>>
    /\ path_to_json' = None
    /\ thread' = 0
    /\ watchers' = [w \in WatcherIds |-> NoWatcher]
    /\ mobile_number' = None
    /\ campaign' = None
    /\ pc' = "idle"
    /\ loc' = NoLoc
    /\ t2' = "idle"
    /\ raised' = FALSE
    /\ Begin
    /\ sentPrev' = sentPrev \cup sentNow
    /\ sentNow' = {}
    /\ hist' = IF hist = {} THEN {} ELSE {<<>>}
    /\ call' = Called(None, <<>>)
    /\ UNCHANGED <<fs, bak, orig>>

----------------------------------------------------------------------------
\* The main thread's calls, with their arguments drawn from the given sets.
MainStep(paths, mobiles, alphas, outcomes) ==
    \/ \E p \in paths : SetTelephones(p)
    \/ SetTelephonesRead
    \/ SetTelephonesParse
    \/ SetTelephonesBackup
    \/ \E mobile \in mobiles, alpha \in alphas : SetMobileNumber(mobile, alpha)
    \/ CreateCampaign
    \/ WatchTelephonesState
    \/ WatchStart
    \/ RunCampaign
    \/ \E outcome \in outcomes : SendSms(outcome)

WatcherStep ==
    \E w \in WatcherIds :
        \/ WatchCopy(w)
        \/ WatchPoll(w)
        \/ WatchOpen(w)
        \/ WatchOpenFails(w)
        \/ WatchDump(w)

\* One process, one state file, one sender identity: the program as its
\* __main__ block drives it, the calls in any order and any number of times.
Sender == {"+48100200300"}

Next == MainStep({"p1"}, Sender, {None}, Outcomes) \/ WatcherStep

Spec == InitFiles(InitialRegistries, {NoFile}, {}) /\ [][Next]_vars

\* The same, with the history of the registry's values recorded.
SpecHistory == InitFiles(InitialRegistries, {NoFile}, {"hist"}) /\ [][Next]_vars

\* The same, stopped and started again.
NextRestart == Next \/ Restart

SpecRestart ==
    InitFiles(InitialRegistries, {NoFile}, {}) /\ [][NextRestart]_vars

\* The same, with a transport that may also return an empty sid.
NextTransport == MainStep({"p1"}, Sender, {None}, AllOutcomes) \/ WatcherStep

SpecTransport ==
    InitFiles(InitialRegistries, {NoFile}, {}) /\ [][NextTransport]_vars

\* One state file of one number, and a second thread that calls
\* watch_telephones_state.
NextThreads ==
    \/ MainStep({"p1"}, Sender, {None}, {"sid"})
    \/ WatcherStep
    \/ SecondCallerTest
    \/ SecondCallerStart

SpecThreads ==
    InitFiles({OneNumber(1)}, {NoFile}, {}) /\ [][NextThreads]_vars

\* One process that loads two state files of one number each; the second
\* file may be missing or malformed.
NextLoads == MainStep(Paths, Sender, {None}, {"sid"}) \/ WatcherStep

SpecLoads ==
    InitFiles({OneNumber(1)}, {NoFile, Malformed, JsonText(OneNumber(2))},
              {})
        /\ [][NextLoads]_vars

\* One process that loads two state files with different numbers: the
\* first holds a finished campaign, the second one pending number.
SpecTwoFiles ==
    InitFiles({AllSent}, {JsonText(OneNumber(1))}, {}) /\ [][NextLoads]_vars

\* One state file of one number, every kind of argument to set_mobile_number,
\* and the main thread's calls recorded.
NextCalls == MainStep({"p1"}, MobileArgs, AlphaArgs, {"sid"}) \/ WatcherStep

SpecCalls ==
    InitFiles({OneNumber(1)}, {NoFile}, {"call"}) /\ [][NextCalls]_vars

----------------------------------------------------------------------------
\* The claims.

IsTrue(reg, num) == num \in Keys(reg) /\ Get(reg, num) = TRUE
IsFalse(reg, num) == num \in Keys(reg) /\ Get(reg, num) = FALSE

\* A call of run_campaign on a loaded registry is over (it returned or raised)
\* and no other call has begun.
RunOver == pc = "idle" /\ startReg # <<>>

\* The numbers the current run passed to the transport, in order.
Attempted == [i \in DOMAIN attempts |-> attempts[i].to]

\* The step just taken was a call of _send_sms with this outcome.
SendStep(outcome) ==
    /\ pc = "run"
    /\ Len(attempts') = Len(attempts) + 1
    /\ attempts'[Len(attempts')].outcome = outcome

\* C1: one call of run_campaign issues send attempts exactly to the numbers
\* that were false when the call started, each once, in insertion order, and
\* neither attempts nor modifies a number that was true when it started.
C1_RunSendsExactlyPending ==
    RunOver =>
        /\ Attempted = Pending(startReg)
        /\ \A e \in Items(startReg) : e.st => e \in Items(telephones)

\* C2 as stated: once a send to N has succeeded, R[N] is true and stays true
\* in every later state of the process, whatever calls follow.
C2_SentStaysTrue ==
    \A s \in sentNow : IsTrue(telephones, s[2])

\* The step of set_telephones that rebinds the registry (line 31).
Rebinds == pc = "load_parse" /\ pc' = "load_bak"

\* C2 as amended: a successful send to N makes R[N] true, and an entry that
\* is true stays true through every step of run_campaign, create_campaign,
\* watch_telephones_state and the watcher; only a later set_telephones, which
\* replaces the registry by the content of the file, can undo it.
C2_SentStaysTrueUntilLoad ==
    [][/\ SendStep("sid") => IsTrue(telephones', attempts'[Len(attempts')].to)
       /\ ~Rebinds =>
              \A num \in Numbers :
                  IsTrue(telephones, num) => IsTrue(telephones', num)]_vars

\* A number was sent to, the watcher has written the registry since, and the
\* main thread has gone on to another call with the entry still true.
C2_Witness ==
    /\ \E s \in sentNow : IsTrue(telephones, s[2])
    /\ \E w \in WatcherIds : watchers[w].last = JsonText(telephones)
    /\ pc = "idle" /\ startReg = <<>> /\ campaign # None

\* C3: when the transport rejects the send to N, _send_sms returns None, R[N]
\* is still false afterwards and no other entry of the registry has changed.
C3_RejectedSendKeepsPending ==
    [][SendStep("rejected") =>
          LET a == attempts'[Len(attempts')]
          IN /\ a.ret = None
             /\ IsFalse(telephones', a.to)
             /\ telephones' = telephones]_vars

\* A send was rejected, its number is still pending, and the run went on to
\* the next number.
C3_Witness ==
    \E i \in DOMAIN attempts :
        /\ attempts[i].outcome = "rejected"
        /\ attempts[i].ret = None
        /\ IsFalse(telephones, attempts[i].to)
        /\ Len(attempts) > i

\* C4: a send that yields no message identifier (a rejection, or a response
\* without an identifier) never aborts run_campaign: the numbers after it
\* are still attempted.
C4_FailedSendNeverAborts ==
    \A i \in DOMAIN attempts :
        (attempts[i].outcome # "sid" /\ i < Len(numbers_to_send))
            => (pc = "run" \/ Len(attempts) > i)

\* C5: after the process was stopped at any point, a later process that
\* loads the state file and runs the campaign attempts no number to which an
\* earlier process sent successfully.
C5_NoResendAfterRestart ==
    \A i \in DOMAIN attempts : <<path_to_json, attempts[i].to>> \notin sentPrev

\* C6: a poll of the watcher finds nothing to persist when the registry equals
\* the content the watcher last wrote to the primary file.
C6_NoWriteWhenUnchanged ==
    [][\A w \in WatcherIds :
          (/\ watchers[w].pc = "poll"
           /\ watchers[w].last.k = "json"
           /\ DictEq(watchers[w].last.d, telephones))
              => watchers'[w].pc # "copy"]_vars

\* C7: every content the watcher writes is the registry as it stood at one
\* instant: the entry values written were all held at the same time.
C7_WrittenContentWasRegistry ==
    \A w \in WatcherIds :
        watchers[w].last.k = "json"
            => \E h \in hist : DictEq(h, watchers[w].last.d)

\* C8: at every instant a reader of a state file that held a registry sees a
\* complete registry, never an empty or partly written file.
C8_ReaderSeesCompleteFile ==
    \A p \in Paths : orig[p].k = "json" => fs[p].k = "json"

\* C9: at most one watcher thread is alive at any time.
C9_AtMostOneWatcher == Cardinality(AliveWatchers) <= 1

\* C10: a backup file, once it exists, holds the original content of its
\* primary file, and nothing changes it afterwards.
C10_BackupIsOriginal ==
    \A p \in Paths : bak[p] \in {NoFile, orig[p]}

\* The step just taken was the main thread's call of this name (for a call
\* that takes several steps, its first).
CallStep(name) == call' # call /\ call'.name = name

\* C11: create_campaign called while no sender identity is set raises, and
\* leaves the registry, the watcher threads and the manager's campaign
\* reference as they were.
C11_CreateWithoutSenderFails ==
    [][(CallStep("create_campaign") /\ mobile_number = None) =>
          /\ raised' /\ pc' = "idle"
          /\ telephones' = telephones
          /\ watchers' = watchers /\ thread' = thread
          /\ campaign' = campaign]_vars

\* create_campaign has just failed for want of a sender identity, on a loaded
\* registry with a number pending and no watcher started.
C11_Witness ==
    /\ call.name = "create_campaign" /\ raised /\ pc = "idle"
    /\ mobile_number = None /\ campaign = None
    /\ Pending(telephones) # <<>>
    /\ AliveWatchers = {}

\* C12: a persist attempt that fails with an I/O error does not stop the
\* watcher: a watcher that leaves the open of line 73 on a configured path
\* has either opened the file or is back at its poll.
C12_FailedWriteKeepsPolling ==
    [][\A w \in WatcherIds :
          (/\ watchers[w].pc = "save"
           /\ path_to_json # None
           /\ watchers'[w].pc # "save")
              => watchers'[w].pc \in {"dump", "poll"}]_vars

\* C13: within one run_campaign the k-th number attempted is the k-th of the
\* numbers pending at run start, counting failed sends, and carries the
\* progress (k, T), T being the count of numbers pending at run start: T is
\* the same for every message and does not shrink as entries become true.
C13_ProgressIsKOfPendingAtStart ==
    \A k \in DOMAIN attempts :
        /\ k <= Len(Pending(startReg))
        /\ attempts[k].to = Pending(startReg)[k]
        /\ attempts[k].nofN = <<k, Len(Pending(startReg))>>

\* A run of two pending numbers: the first send succeeded and its entry is
\* true, the second send, a rejected one, was reported as 2 of 2.
C13_Witness ==
    /\ Len(attempts) = 2
    /\ attempts[1].outcome = "sid" /\ IsTrue(telephones, attempts[1].to)
    /\ attempts[2].outcome = "rejected" /\ attempts[2].nofN = <<2, 2>>
    /\ Len(Pending(telephones)) = 1

\* The step just taken completed a persist cycle of watcher w: json.dump
\* returned and the file was closed.
PersistDone(w) ==
    watchers[w].pc \in {"dump", "dumping"} /\ watchers'[w].pc = "poll"

\* C14: after every completed persist cycle of the watcher, the set of keys
\* in the primary file equals the set of keys of the in-memory registry; the
\* primary file is taken to be the file the cycle wrote or, if that is
\* another one, the file at the configured path.
C14_PersistedKeysAreRegistryKeys ==
    [][\A w \in WatcherIds :
          PersistDone(w) =>
              \/ Keys(fs'[watchers[w].fpath].d) = Keys(telephones')
              \/ Keys(fs'[path_to_json'].d) = Keys(telephones')]_vars

\* The main thread is between calls and the watcher has nothing left to do:
\* a watcher is alive, none has ended with an error, and each one is at its
\* poll with a copy equal to the registry.  From here nothing is written
\* until the registry changes again.
Quiescent ==
    /\ pc = "idle"
    /\ AliveWatchers # {}
    /\ \A w \in WatcherIds :
           /\ watchers[w].pc \in {"none", "poll"}
           /\ Alive(w) => ~Changed(w)

\* C15: every change of the loaded registry is eventually persisted, one made
\* before the watcher took its first copy included: once the mutations have
\* stopped and the watcher, free of I/O errors, has nothing left to do, the
\* primary file holds the in-memory registry.
C15_EveryChangePersisted ==
    (Quiescent /\ path_to_json # None)
        => (Parses(fs[path_to_json])
            /\ DictEq(JsonLoads(fs[path_to_json]), telephones))

\* C16: an entry of the registry goes from false to true only in a call of
\* _send_sms for that number in which the transport returned a non-empty
\* message identifier: a response whose identifier is missing or empty never
\* makes the entry true, and no other step does.  (A load, which replaces the
\* registry as a whole, is set aside.)
C16_OnlyIdentifiedSendFlips ==
    [][\A num \in Numbers :
          (IsFalse(telephones, num) /\ IsTrue(telephones', num) /\ ~Rebinds)
              => /\ SendStep("sid")
                 /\ attempts'[Len(attempts')].to = num
                 /\ attempts'[Len(attempts')].ret \notin {None, ""}]_vars

\* C17: a load that fails leaves the store as it was: the registry and the
\* configured path keep their values, so the path of a file that is missing
\* or malformed, whose every load fails, is never the configured path once
\* the call is over, and no watcher ever writes that file.
C17_FailedLoadLeavesStore ==
    \A p \in Paths :
        ~Parses(orig[p]) =>
            /\ fs[p] = orig[p]
            /\ pc = "idle" => path_to_json # p

\* C18: set_mobile_number called with both or with neither of mobile_number
\* and alphanumeric_sender_id raises and leaves the stored identity as it
\* was; called with exactly one of them, whatever its value, it returns with
\* the identity set to that value, so that a create_campaign that follows
\* does not find the sender identity missing.
C18_SenderIdentityExclusive ==
    [][CallStep("set_mobile_number") =>
          LET mobile == call'.args[1]
              alpha == call'.args[2]
          IN IF (mobile = None) # (alpha = None)
             THEN /\ ~raised'
                  /\ mobile_number' = IF mobile # None THEN mobile ELSE alpha
                  /\ ~SenderMissing(mobile_number')
             ELSE /\ raised'
                  /\ mobile_number' = mobile_number]_vars
====
